---- MODULE Spec2Model ----
(***************************************************************************)
(* Model of pip_accel/caches/swift.py: SwiftCacheBackend, the cache        *)
(* backend that keeps distribution archives in a Swift container and       *)
(* reads through a local cache directory.                                  *)
(*                                                                         *)
(* Every process of the model is one operating-system process that owns    *)
(* one SwiftCacheBackend instance; all of them share the local cache       *)
(* directory and the Swift container.  get() is split at its file-system   *)
(* and network operations, so that concurrent calls interleave; put() is   *)
(* one remote call and one step.                                           *)
(***************************************************************************)
EXTENDS Integers, Sequences, FiniteSets, TLC

(***************************************************************************)
(* Bounds of the model.                                                    *)
(***************************************************************************)
NumProcs == 2
MaxCalls == 3

Procs == 1 .. NumProcs

\* The filenames that callers pass to get() and put().
Files == {"a.whl"}

\* The archive bodies: no body is a proper prefix of another one.
Bodies == {<<1>>, <<2, 3>>}

\* The messages of the ClientExceptions that the Swift client raises.
AuthFailure == "Unauthorized"
NetworkFault == "Connection refused"
NotFound == "Object GET failed"

\* Python's None, and the marker of a setting that the configuration resolves
\* nowhere.
None == "None"
Unset == "unset"

(***************************************************************************)
(* State.                                                                  *)
(***************************************************************************)
VARIABLES
    settings,    \* the configuration: property name -> value or Unset
    files,       \* the local file system: existing path -> content
    cachedir,    \* whether the binary cache directory exists
    store,       \* the Swift store: existing <<container, name>> -> body
    conn,        \* self._connection of each backend
    attempts,    \* how many Connection(...) calls each backend has made
    pc,          \* where each process is in get()
    call,        \* the call a process is in, or made last
    content,     \* get()'s local variable content
    log,         \* the remote calls of the current call, as a stub records them
    ret,         \* how the last call of each process ended
    ncalls       \* the number of calls started so far

vars == <<settings, files, cachedir, store, conn, attempts, pc, call, content, log, ret, ncalls>>

(***************************************************************************)
(* Configuration.                                                          *)
(***************************************************************************)
BinaryCache == "/cache"

\* The names os_options looks up, in the order of the source.
OsKeys == <<"auth_token", "tenant_name", "tenant_id", "user_id", "username",
            "user_domain_name", "user_domain_id", "project_name", "project_id",
            "project_domain_name", "project_domain_id", "region_name">>

OsKeySet == {OsKeys[i] : i \in 1 .. Len(OsKeys)}

PropertyNames == {"swift_cache_prefix", "swift_cache_container_name",
                  "os_password", "os_auth_url", "os_identity_api_version"}
                 \cup {"os_" \o k : k \in OsKeySet}

\* config.get(property_name, environment_variable, configuration_option,
\* default): the first of the three sources that is set, else the default.
ConfigGet(property_name, default) ==
    IF settings[property_name] = Unset THEN default ELSE settings[property_name]

swift_cache_prefix == ConfigGet("swift_cache_prefix", "")

container_name == ConfigGet("swift_cache_container_name", "")

_swift_property(name, default) == ConfigGet("os_" \o name, default)

username == _swift_property("username", None)

password == _swift_property("password", None)

auth_url == _swift_property("auth_url", None)

auth_version == _swift_property("identity_api_version", "3")

\* The loop of os_options over the first n keys.
RECURSIVE OsOptionsUpTo(_)
OsOptionsUpTo(n) ==
    IF n = 0 THEN <<>>
    ELSE LET options == OsOptionsUpTo(n - 1)
             key == OsKeys[n]
             value == _swift_property(key, None)
         IN  IF value # None THEN options @@ (key :> value) ELSE options

\* (os_options_ShortLoop: the loop stops before the last key.)
os_options_ShortLoop == OsOptionsUpTo(Len(OsKeys) - 1)

\* (os_options_Truthy: the test is `if value:`, which the empty string fails.)
os_options_Truthy ==
    [k \in {x \in OsKeySet : _swift_property(x, None) \notin {None, ""}} |->
        _swift_property(k, None)]

os_options == OsOptionsUpTo(Len(OsKeys))

(***************************************************************************)
(* get_cache_key.                                                          *)
(***************************************************************************)
\* filter(None, seq): the elements that are not the empty string.
FilterNone(seq) == SelectSeq(seq, LAMBDA s : s # "")

RECURSIVE Join(_, _)
Join(sep, seq) ==
    IF Len(seq) = 0 THEN ""
    ELSE IF Len(seq) = 1 THEN seq[1]
    ELSE seq[1] \o sep \o Join(sep, Tail(seq))

\* (CacheKey_NoFilter: prefix and filename are joined without filter(None, ...).)
CacheKey_NoFilter(prefix, filename) == Join("/", <<prefix, filename>>)

CacheKey(prefix, filename) == Join("/", FilterNone(<<prefix, filename>>))

get_cache_key(filename) == CacheKey(swift_cache_prefix, filename)

(***************************************************************************)
(* Paths.                                                                  *)
(***************************************************************************)
\* os.path.join(self.config.binary_cache, filename), for a relative filename.
Pathname(filename) == BinaryCache \o "/" \o filename

\* AtomicReplace(pathname).__enter__(): the temporary file of this process.
TemporaryFile(pathname, pid) == pathname \o ".tmp-" \o ToString(pid)

\* (OpenedFile_Target: get() opens pathname itself for writing.)
OpenedFile_Target(p, filename) == Pathname(filename)

\* The file get() opens for writing: the temporary file, not the target.
OpenedFile(p, filename) == TemporaryFile(Pathname(filename), p)

\* (isfile_Never: the check for the local file never finds it.)
isfile_Never(path) == FALSE

\* os.path.isfile(pathname)
isfile(path) == path \in DOMAIN files

(***************************************************************************)
(* The configurations.                                                     *)
(***************************************************************************)
NoSettings == [n \in PropertyNames |-> Unset]

\* The configurations the model starts from.
InitSettings ==
    {[NoSettings EXCEPT !["swift_cache_prefix"] = pr,
                        !["swift_cache_container_name"] = cn,
                        !["os_username"] = "bob",
                        !["os_region_name"] = ""]
        : <<pr, cn>> \in {<<Unset, Unset>>, <<"wheels", "pip">>}}

(***************************************************************************)
(* Values.                                                                 *)
(***************************************************************************)
\* How a call ends: it returns a value or raises an exception.
NoResult == [kind |-> "none", value |-> "", msg |-> ""]
Pending == [kind |-> "pending", value |-> "", msg |-> ""]
Return(v) == [kind |-> "return", value |-> v, msg |-> ""]
Raise(type, msg) == [kind |-> "raise", value |-> type, msg |-> msg]

\* self._connection = None
NoConnection == [id |-> 0]

\* Connection(user=..., key=..., authurl=..., auth_version=..., os_options=...)
NewConnection(n) ==
    [id |-> n, user |-> username, key |-> password, authurl |-> auth_url,
     auth_version |-> auth_version, os_options |-> os_options]

\* A call: the operation, its arguments, and whether pathname was a file when
\* the call began.
NoCall == [op |-> "none", filename |-> "", handle |-> <<>>, existed |-> FALSE]

StartOf(op, filename, handle) ==
    [op |-> op, filename |-> filename, handle |-> handle,
     existed |-> Pathname(filename) \in DOMAIN files]

\* f with the value v at k, k in its domain or not.
Upd(f, k, v) == [x \in DOMAIN f \cup {k} |-> IF x = k THEN v ELSE f[x]]

\* f without k.
Del(f, k) == [x \in DOMAIN f \ {k} |-> f[x]]

\* What the remote side may do with a request: serve it, or fail with a message.
Outcomes == {"ok", NetworkFault}

\* What a construction may meet: nothing is constructed, and nothing can fail,
\* once a connection is stored.
ConstructionOutcomes(p) ==
    IF conn[p] # NoConnection THEN {"ok"} ELSE {"ok", AuthFailure}

(***************************************************************************)
(* The connection property.                                                *)
(***************************************************************************)
\* (ConstructionFailed_Raw: the ClientException is raised again as it is.)
ConstructionFailed_Raw(msg) == Raise("ClientException", msg)

\* except ClientException as e: raise CacheBackendDisabledError(e.msg)
ConstructionFailed(msg) == Raise("CacheBackendDisabledError", msg)

\* (connection_Reconnect: the property constructs a connection at every
\* access, whether one is stored or not.)
connection_Reconnect(p, outcome) ==
    LET made == NewConnection(attempts[p] + 1)
        entry == [fn |-> "Connection", args |-> made, via |-> 0,
                  outcome |-> outcome]
    IN  IF outcome = "ok"
        THEN [conn |-> made, attempts |-> attempts[p] + 1,
              raised |-> NoResult, log |-> <<entry>>]
        ELSE [conn |-> conn[p], attempts |-> attempts[p] + 1,
              raised |-> Raise("CacheBackendDisabledError", outcome),
              log |-> <<entry>>]

\* (connection_KeepFailed: the attribute is assigned before the construction
\* is known to have succeeded, and keeps the session that failed.)
connection_KeepFailed(p, outcome) ==
    IF conn[p] # NoConnection
    THEN [conn |-> conn[p], attempts |-> attempts[p], raised |-> NoResult,
          log |-> <<>>]
    ELSE LET made == NewConnection(attempts[p] + 1)
             entry == [fn |-> "Connection", args |-> made, via |-> 0,
                       outcome |-> outcome]
         IN  [conn |-> made, attempts |-> attempts[p] + 1,
              raised |-> IF outcome = "ok" THEN NoResult
                         ELSE Raise("CacheBackendDisabledError", outcome),
              log |-> <<entry>>]

\* The property read once by the backend of process p, where the client
\* answers a construction with outcome: the connection it leaves stored, the
\* number of constructions made, the exception raised (or NoResult), and the
\* calls the client saw.
connection(p, outcome) ==
    IF conn[p] # NoConnection
    THEN [conn |-> conn[p], attempts |-> attempts[p], raised |-> NoResult,
          log |-> <<>>]
    ELSE LET made == NewConnection(attempts[p] + 1)
             entry == [fn |-> "Connection", args |-> made, via |-> 0,
                       outcome |-> outcome]
         IN  IF outcome = "ok"
             THEN [conn |-> made, attempts |-> attempts[p] + 1,
                   raised |-> NoResult, log |-> <<entry>>]
             ELSE [conn |-> conn[p], attempts |-> attempts[p] + 1,
                   raised |-> ConstructionFailed(outcome), log |-> <<entry>>]

(***************************************************************************)
(* get.                                                                    *)
(***************************************************************************)
\* (GetExcept_Propagate: get() has no except clause.)
GetExcept_Propagate(exc) == exc

\* except ClientException: return None.  Any other exception leaves get().
GetExcept(exc) ==
    IF exc.value = "ClientException" THEN Return(None) ELSE exc

\* (GetHit_Revalidate: the local file counts only while the container still
\* holds the object with the same body.)
GetHit_Revalidate(p, filename) ==
    /\ pc[p] = "idle"
    /\ ncalls < MaxCalls
    /\ isfile(Pathname(filename))
    /\ ncalls' = ncalls + 1
    /\ call' = [call EXCEPT ![p] = StartOf("get", filename, <<>>)]
    /\ log' = [log EXCEPT ![p] = <<>>]
    /\ ret' = [ret EXCEPT ![p] =
                  IF /\ <<container_name, get_cache_key(filename)>> \in DOMAIN store
                     /\ store[<<container_name, get_cache_key(filename)>>] =
                           files[Pathname(filename)]
                  THEN Return(Pathname(filename)) ELSE Return(None)]
    /\ UNCHANGED <<settings, files, cachedir, store, conn, attempts, pc, content>>

\* The local file exists: get() returns its path and does nothing else.
GetHit(p, filename) ==
    /\ pc[p] = "idle"
    /\ ncalls < MaxCalls
    /\ isfile(Pathname(filename))
    /\ ncalls' = ncalls + 1
    /\ call' = [call EXCEPT ![p] = StartOf("get", filename, <<>>)]
    /\ log' = [log EXCEPT ![p] = <<>>]
    /\ ret' = [ret EXCEPT ![p] = Return(Pathname(filename))]
    /\ UNCHANGED <<settings, files, cachedir, store, conn, attempts, pc, content>>

\* (MissFiles_OpenFirst: get() opens pathname for writing before it asks for
\* the object.)
MissFiles_OpenFirst(fs, p, filename) == Upd(fs, Pathname(filename), <<>>)

\* The file system when get_object returns or raises: makedirs() has made
\* directories only, and no file is opened before the object is there.
MissFiles(fs, p, filename) == fs

\* The local file does not exist: makedirs(), then, inside the try block and
\* the with block, self.connection.get_object(self.container_name, name).
\* The step ends where get() returns or raises, or before the file is opened.
GetMiss(p, filename) ==
    /\ pc[p] = "idle"
    /\ ncalls < MaxCalls
    /\ ~isfile(Pathname(filename))
    /\ ncalls' = ncalls + 1
    /\ call' = [call EXCEPT ![p] = StartOf("get", filename, <<>>)]
    /\ cachedir' = TRUE
    /\ files' = MissFiles(files, p, filename)
    /\ \E co \in ConstructionOutcomes(p), go \in Outcomes :
        LET name == get_cache_key(filename)
            c == connection(p, co)
            id == <<container_name, name>>
            answer == IF id \notin DOMAIN store THEN NotFound ELSE go
            entry == [fn |-> "get_object",
                      args |-> [container |-> container_name, name |-> name],
                      via |-> c.conn.id, outcome |-> answer]
        IN  /\ conn' = [conn EXCEPT ![p] = c.conn]
            /\ attempts' = [attempts EXCEPT ![p] = c.attempts]
            /\ IF c.raised # NoResult
               THEN /\ log' = [log EXCEPT ![p] = c.log]
                    /\ ret' = [ret EXCEPT ![p] = GetExcept(c.raised)]
                    /\ UNCHANGED <<pc, content>>
               ELSE /\ log' = [log EXCEPT ![p] = c.log \o <<entry>>]
                    /\ IF answer = "ok"
                       THEN /\ content' = [content EXCEPT ![p] = store[id]]
                            /\ pc' = [pc EXCEPT ![p] = "open"]
                            /\ ret' = [ret EXCEPT ![p] = Pending]
                       ELSE /\ ret' = [ret EXCEPT ![p] =
                                          GetExcept(Raise("ClientException", answer))]
                            /\ UNCHANGED <<pc, content>>
    /\ UNCHANGED <<settings, store>>

\* open(temporary_file, 'wb'): the file exists and is empty.
GetOpen(p) ==
    /\ pc[p] = "open"
    /\ files' = Upd(files, OpenedFile(p, call[p].filename), <<>>)
    /\ pc' = [pc EXCEPT ![p] = "write"]
    /\ UNCHANGED <<settings, cachedir, store, conn, attempts, call, content, log,
                   ret, ncalls>>

\* (GetWrite_Short: the file is closed after the first byte.)
GetWrite_Short(p) ==
    /\ pc[p] = "write"
    /\ LET t == OpenedFile(p, call[p].filename)
           n == Len(files[t])
       IN  /\ n < Len(content[p])
           /\ files' = [files EXCEPT ![t] = Append(@, content[p][n + 1])]
           /\ pc' = [pc EXCEPT ![p] = "replace"]
    /\ UNCHANGED <<settings, cachedir, store, conn, attempts, call, content, log,
                   ret, ncalls>>

\* o.write(content) reaches the file one byte after the other.
GetWrite(p) ==
    /\ pc[p] = "write"
    /\ LET t == OpenedFile(p, call[p].filename)
           n == Len(files[t])
       IN  /\ n < Len(content[p])
           /\ files' = [files EXCEPT ![t] = Append(@, content[p][n + 1])]
           /\ pc' = [pc EXCEPT ![p] =
                        IF n + 1 = Len(content[p]) THEN "replace" ELSE "write"]
    /\ UNCHANGED <<settings, cachedir, store, conn, attempts, call, content, log,
                   ret, ncalls>>

\* AtomicReplace(pathname).__exit__() without an exception: the temporary
\* file is renamed to pathname.
ReplaceFile(fs, src, dst) == Del(Upd(fs, dst, fs[src]), src)

\* The with blocks end, the file is closed and moved into place, and get()
\* returns pathname.
GetReplace(p) ==
    /\ pc[p] = "replace"
    /\ files' = ReplaceFile(files, OpenedFile(p, call[p].filename),
                            Pathname(call[p].filename))
    /\ ret' = [ret EXCEPT ![p] = Return(Pathname(call[p].filename))]
    /\ pc' = [pc EXCEPT ![p] = "idle"]
    /\ UNCHANGED <<settings, cachedir, store, conn, attempts, call, content, log,
                   ncalls>>

(***************************************************************************)
(* put.                                                                    *)
(***************************************************************************)
\* (PutExcept_Swallow: put() catches the exception and returns.)
PutExcept_Swallow(exc) == Return(None)

\* put() has no try block: an exception leaves it as it is.
PutExcept(exc) == exc

\* (PutArgs_NoPrefix: the object is named by the filename alone.)
PutArgs_NoPrefix(filename, handle) ==
    [container |-> container_name, name |-> filename,
     contents |-> handle, content_type |-> "application/binary"]

\* The arguments of put_object.
PutArgs(filename, handle) ==
    [container |-> container_name, name |-> get_cache_key(filename),
     contents |-> handle, content_type |-> "application/binary"]

\* (Put_Cache: put() also writes the archive into the local cache.)
Put_Cache(p, filename, handle) ==
    /\ pc[p] = "idle"
    /\ ncalls < MaxCalls
    /\ ncalls' = ncalls + 1
    /\ call' = [call EXCEPT ![p] = StartOf("put", filename, handle)]
    /\ files' = Upd(files, Pathname(filename), handle)
    /\ \E co \in ConstructionOutcomes(p), po \in Outcomes :
        LET args == PutArgs(filename, handle)
            c == connection(p, co)
            entry == [fn |-> "put_object", args |-> args, via |-> c.conn.id,
                      outcome |-> po]
        IN  /\ conn' = [conn EXCEPT ![p] = c.conn]
            /\ attempts' = [attempts EXCEPT ![p] = c.attempts]
            /\ IF c.raised # NoResult
               THEN /\ log' = [log EXCEPT ![p] = c.log]
                    /\ ret' = [ret EXCEPT ![p] = PutExcept(c.raised)]
                    /\ UNCHANGED store
               ELSE /\ log' = [log EXCEPT ![p] = c.log \o <<entry>>]
                    /\ IF po = "ok"
                       THEN /\ store' = Upd(store, <<args.container, args.name>>,
                                            args.contents)
                            /\ ret' = [ret EXCEPT ![p] = Return(None)]
                       ELSE /\ ret' = [ret EXCEPT ![p] =
                                          PutExcept(Raise("ClientException", po))]
                            /\ UNCHANGED store
    /\ UNCHANGED <<settings, cachedir, pc, content>>

\* put(filename, handle): the connection, then put_object; no try block, and
\* no access to the local cache.
Put(p, filename, handle) ==
    /\ pc[p] = "idle"
    /\ ncalls < MaxCalls
    /\ ncalls' = ncalls + 1
    /\ call' = [call EXCEPT ![p] = StartOf("put", filename, handle)]
    /\ \E co \in ConstructionOutcomes(p), po \in Outcomes :
        LET args == PutArgs(filename, handle)
            c == connection(p, co)
            entry == [fn |-> "put_object", args |-> args, via |-> c.conn.id,
                      outcome |-> po]
        IN  /\ conn' = [conn EXCEPT ![p] = c.conn]
            /\ attempts' = [attempts EXCEPT ![p] = c.attempts]
            /\ IF c.raised # NoResult
               THEN /\ log' = [log EXCEPT ![p] = c.log]
                    /\ ret' = [ret EXCEPT ![p] = PutExcept(c.raised)]
                    /\ UNCHANGED store
               ELSE /\ log' = [log EXCEPT ![p] = c.log \o <<entry>>]
                    /\ IF po = "ok"
                       THEN /\ store' = Upd(store, <<args.container, args.name>>,
                                            args.contents)
                            /\ ret' = [ret EXCEPT ![p] = Return(None)]
                       ELSE /\ ret' = [ret EXCEPT ![p] =
                                          PutExcept(Raise("ClientException", po))]
                            /\ UNCHANGED store
    /\ UNCHANGED <<settings, files, cachedir, pc, content>>

(***************************************************************************)
(* The specification.                                                      *)
(***************************************************************************)
\* The local files and the stored objects the model starts from: complete
\* bodies, left by earlier runs.
InitFiles ==
    UNION {[S -> Bodies] : S \in SUBSET {Pathname(f) : f \in Files}}

InitStore(cfg) ==
    LET cn == IF cfg["swift_cache_container_name"] = Unset THEN ""
              ELSE cfg["swift_cache_container_name"]
        pr == IF cfg["swift_cache_prefix"] = Unset THEN ""
              ELSE cfg["swift_cache_prefix"]
    IN  UNION {[S -> Bodies] : S \in SUBSET {<<cn, CacheKey(pr, f)>> : f \in Files}}

Init ==
    /\ settings \in InitSettings
    /\ files \in InitFiles
    /\ cachedir = (DOMAIN files # {})
    /\ store \in InitStore(settings)
    /\ conn = [p \in Procs |-> NoConnection]
    /\ attempts = [p \in Procs |-> 0]
    /\ pc = [p \in Procs |-> "idle"]
    /\ call = [p \in Procs |-> NoCall]
    /\ content = [p \in Procs |-> <<>>]
    /\ log = [p \in Procs |-> <<>>]
    /\ ret = [p \in Procs |-> NoResult]
    /\ ncalls = 0

Next ==
    \/ \E p \in Procs, f \in Files : GetHit(p, f)
    \/ \E p \in Procs, f \in Files : GetMiss(p, f)
    \/ \E p \in Procs : GetOpen(p)
    \/ \E p \in Procs : GetWrite(p)
    \/ \E p \in Procs : GetReplace(p)
    \/ \E p \in Procs, f \in Files, h \in Bodies : Put(p, f, h)

Spec == Init /\ [][Next]_vars

(***************************************************************************)
(* The same calls, from an empty container and an empty local cache.       *)
(***************************************************************************)
RoundInit == Init /\ DOMAIN store = {} /\ DOMAIN files = {}

RoundSpec == RoundInit /\ [][Next]_vars

(***************************************************************************)
(* get_cache_key called by itself, over more prefixes and filenames.       *)
(***************************************************************************)
\* The values of the swift_cache_prefix setting, and the filenames.
KeyPrefixes == {Unset, "", "wheels", "a/b", "x/"}
KeyFilenames == {"a.whl", "b-1.0.tar.gz", "sub/c.whl", "wheels", "/"}

\* A caller asks the backend of process p for the cache key of filename.
GetCacheKey(p, filename) ==
    /\ pc[p] = "idle"
    /\ call' = [call EXCEPT ![p] = StartOf("get_cache_key", filename, <<>>)]
    /\ log' = [log EXCEPT ![p] = <<>>]
    /\ ret' = [ret EXCEPT ![p] = Return(get_cache_key(filename))]
    /\ UNCHANGED <<settings, files, cachedir, store, conn, attempts, pc, content,
                   ncalls>>

KeyInit ==
    /\ settings \in {[NoSettings EXCEPT !["swift_cache_prefix"] = pr] :
                        pr \in KeyPrefixes}
    /\ files = <<>>
    /\ cachedir = FALSE
    /\ store = <<>>
    /\ conn = [p \in Procs |-> NoConnection]
    /\ attempts = [p \in Procs |-> 0]
    /\ pc = [p \in Procs |-> "idle"]
    /\ call = [p \in Procs |-> NoCall]
    /\ content = [p \in Procs |-> <<>>]
    /\ log = [p \in Procs |-> <<>>]
    /\ ret = [p \in Procs |-> NoResult]
    /\ ncalls = 0

KeyNext == \E p \in Procs, f \in KeyFilenames : GetCacheKey(p, f)

KeySpec == KeyInit /\ [][KeyNext]_vars

(***************************************************************************)
(* os_options read by itself, over more configurations.                    *)
(***************************************************************************)
\* How many of the twelve options a configuration sets at most (or all).
MaxSetOptions == 2

\* The values a configuration sets an option to.
OptValues == {"", "RegionOne"}

\* The settings of the twelve options: those that set at most MaxSetOptions
\* of them, and those that set them all to one value.
OptAssignments ==
    LET few == UNION {[S -> OptValues] :
                         S \in {T \in SUBSET OsKeySet :
                                   Cardinality(T) <= MaxSetOptions}}
        all == {[k \in OsKeySet |-> v] : v \in OptValues}
    IN  few \cup all

\* The configuration that sets the options as a does, and the password and
\* the URL besides, which are no options of the allow-list.
OptSettings(a) ==
    [n \in PropertyNames |->
        IF n = "os_password" THEN "secret"
        ELSE IF n = "os_auth_url" THEN "https://keystone/v3"
        ELSE IF \E k \in DOMAIN a : n = "os_" \o k
             THEN a[CHOOSE k \in DOMAIN a : n = "os_" \o k]
        ELSE Unset]

\* The os_options property of the backend of process p is read.
ReadOsOptions(p) ==
    /\ pc[p] = "idle"
    /\ call' = [call EXCEPT ![p] = StartOf("os_options", "", <<>>)]
    /\ log' = [log EXCEPT ![p] = <<>>]
    /\ ret' = [ret EXCEPT ![p] = Return(os_options)]
    /\ UNCHANGED <<settings, files, cachedir, store, conn, attempts, pc, content,
                   ncalls>>

OptInit ==
    /\ settings \in {OptSettings(a) : a \in OptAssignments}
    /\ files = <<>>
    /\ cachedir = FALSE
    /\ store = <<>>
    /\ conn = [p \in Procs |-> NoConnection]
    /\ attempts = [p \in Procs |-> 0]
    /\ pc = [p \in Procs |-> "idle"]
    /\ call = [p \in Procs |-> NoCall]
    /\ content = [p \in Procs |-> <<>>]
    /\ log = [p \in Procs |-> <<>>]
    /\ ret = [p \in Procs |-> NoResult]
    /\ ncalls = 0

OptNext == \E p \in Procs : ReadOsOptions(p)

OptSpec == OptInit /\ [][OptNext]_vars

(***************************************************************************)
(* What the properties speak of.                                           *)
(***************************************************************************)
\* The last call of p is over.
Done(p) == pc[p] = "idle" /\ call[p].op # "none"

\* No other process has made a call: the calls of p run one after the other.
Solo(p) == \A q \in Procs \ {p} : call[q] = NoCall

\* The calls to fn that the client saw during the call of p, and those of
\* them that it answered with an error.
Calls(p, fn) == {i \in 1 .. Len(log[p]) : log[p][i].fn = fn}
Failed(p, fn) == {i \in Calls(p, fn) : log[p][i].outcome # "ok"}

\* The client signalled an error during the call of p.
ClientError(p) == \E i \in 1 .. Len(log[p]) : log[p][i].outcome # "ok"

\* The object that get(filename) and put(filename, ...) are about.
ObjectOf(filename) == <<container_name, get_cache_key(filename)>>

\* A get of p that found no local file.
MissedGet(p) == Done(p) /\ call[p].op = "get" /\ ~call[p].existed

(***************************************************************************)
(* C1.                                                                     *)
(***************************************************************************)
\* C1, as stated: a get that found no local file and during which the client
\* signalled an error, whichever, returns None and raises nothing.
C1_AnyClientErrorGivesNone ==
    \A p \in Procs :
        (MissedGet(p) /\ ClientError(p)) => ret[p] = Return(None)

\* C1, amended: a get that found no local file and whose get_object call
\* raised a client error returns None and raises nothing; an error of the
\* construction of the connection is not turned into None, it leaves get()
\* as an exception.
C1_GetObjectErrorGivesNone ==
    \A p \in Procs :
        MissedGet(p) =>
            /\ Failed(p, "get_object") # {} => ret[p] = Return(None)
            /\ Failed(p, "Connection") # {} => ret[p].kind = "raise"

\* A get that met a network fault of get_object, the object being stored,
\* and returned None.
C1_Witness ==
    \E p \in Procs :
        /\ MissedGet(p)
        /\ ObjectOf(call[p].filename) \in DOMAIN store
        /\ \E i \in Failed(p, "get_object") : log[p][i].outcome = NetworkFault
        /\ ret[p] = Return(None)

(***************************************************************************)
(* C2.                                                                     *)
(***************************************************************************)
\* C2: a get(f) that began when <binary_cache>/f was a file returns that path,
\* and the client saw no call during it: no get_object, no construction.
C2_LocalHitMakesNoRemoteCall ==
    \A p \in Procs :
        (call[p].op = "get" /\ call[p].existed) =>
            /\ pc[p] = "idle"
            /\ ret[p] = Return(BinaryCache \o "/" \o call[p].filename)
            /\ log[p] = <<>>

\* A get that found the local file, by a backend that has no connection and
\* has constructed none, while the object is not even in the store.
C2_Witness ==
    \E p \in Procs :
        /\ call[p].op = "get" /\ call[p].existed
        /\ conn[p] = NoConnection /\ attempts[p] = 0
        /\ ObjectOf(call[p].filename) \notin DOMAIN store

C4_FailedGetLeavesNoFile ==
    \A p \in Procs :
        (Solo(p) /\ MissedGet(p) /\ ClientError(p)) =>
            Pathname(call[p].filename) \notin DOMAIN files

\* A get that failed because the object is not in the store.
C4_Witness ==
    \E p \in Procs :
        /\ Solo(p) /\ MissedGet(p)
        /\ \E i \in Failed(p, "get_object") : log[p][i].outcome = NotFound
        /\ Pathname(call[p].filename) \notin DOMAIN files

(***************************************************************************)
(* C5.                                                                     *)
(***************************************************************************)
\* C5: where the calls of p run alone, a get(f) of p that found no local file
\* and whose fetch succeeded returns <binary_cache>/f, and the file there
\* holds the body stored under get_cache_key(f).
C5_FetchedBodyIsFileContent ==
    \A p \in Procs :
        (Solo(p) /\ MissedGet(p) /\ ~ClientError(p)) =>
            /\ ret[p] = Return(Pathname(call[p].filename))
            /\ Pathname(call[p].filename) \in DOMAIN files
            /\ files[Pathname(call[p].filename)] = store[ObjectOf(call[p].filename)]

\* A get that downloaded the two-byte body.
C5_Witness ==
    \E p \in Procs :
        /\ Solo(p) /\ MissedGet(p) /\ ~ClientError(p)
        /\ files[Pathname(call[p].filename)] = <<2, 3>>

(***************************************************************************)
(* C6.                                                                     *)
(***************************************************************************)
\* C6, as stated: every error the client signals during a put leaves put() as
\* the ClientException it is, and put_object is called at most once.
C6_AnyFailurePropagatesUnmodified ==
    \A p \in Procs :
        (Done(p) /\ call[p].op = "put") =>
            /\ \A i \in 1 .. Len(log[p]) :
                  log[p][i].outcome # "ok" =>
                      ret[p] = Raise("ClientException", log[p][i].outcome)
            /\ Cardinality(Calls(p, "put_object")) <= 1

\* C6, amended: an error of put_object leaves put() as the ClientException it
\* is; an error of the construction of the connection leaves put() too, but
\* as a CacheBackendDisabledError with the same message; put() returns
\* normally after neither, and calls put_object at most once.
C6_PutFailurePropagates ==
    \A p \in Procs :
        (Done(p) /\ call[p].op = "put") =>
            /\ \A i \in Failed(p, "put_object") :
                  ret[p] = Raise("ClientException", log[p][i].outcome)
            /\ \A i \in Failed(p, "Connection") :
                  ret[p] = Raise("CacheBackendDisabledError", log[p][i].outcome)
            /\ Cardinality(Calls(p, "put_object")) <= 1

\* A put whose put_object met a network fault.
C6_Witness ==
    \E p \in Procs :
        /\ Done(p) /\ call[p].op = "put"
        /\ \E i \in Failed(p, "put_object") : log[p][i].outcome = NetworkFault
        /\ ret[p] = Raise("ClientException", NetworkFault)

(***************************************************************************)
(* C7.                                                                     *)
(***************************************************************************)
\* C7, as stated: a backend constructs a connection at most once.
C7_ConstructionAttemptedOnce == \A p \in Procs : attempts[p] <= 1

\* C7, amended: a backend constructs a connection successfully at most once:
\* once a connection is stored, no step constructs another or stores another,
\* and every request of a later call goes through the stored one.  (A construction that
\* fails stores nothing, and the next access constructs again.)
C7_StoredConnectionIsReused ==
    [][\A p \in Procs :
          conn[p] # NoConnection =>
              /\ conn'[p] = conn[p]
              /\ attempts'[p] = attempts[p]
              /\ log'[p] # log[p] =>
                    \A i \in 1 .. Len(log'[p]) :
                        /\ log'[p][i].fn # "Connection"
                        /\ log'[p][i].via = conn[p].id]_vars

\* A call that made its request through a connection stored by an earlier
\* call.
C7_Witness ==
    \E p \in Procs :
        /\ Done(p)
        /\ conn[p] # NoConnection
        /\ Len(log[p]) = 1
        /\ log[p][1].fn # "Connection"
        /\ log[p][1].via = conn[p].id

(***************************************************************************)
(* C8.                                                                     *)
(***************************************************************************)
\* C8: a get (with no local file) or a put during which the construction of
\* the connection raised a client error ends with a CacheBackendDisabledError
\* that carries the message of that error.
C8_ConstructionErrorDisablesBackend ==
    \A p \in Procs :
        Done(p) =>
            \A i \in Failed(p, "Connection") :
                /\ ret[p].kind = "raise"
                /\ ret[p].value = "CacheBackendDisabledError"
                /\ ret[p].msg = log[p][i].outcome

\* A get and a put that both met a failing construction.
C8_Witness ==
    \E p, q \in Procs :
        /\ Done(p) /\ call[p].op = "get" /\ Failed(p, "Connection") # {}
        /\ Done(q) /\ call[q].op = "put" /\ Failed(q, "Connection") # {}

(***************************************************************************)
(* C9.                                                                     *)
(***************************************************************************)
\* What C9 expects put(filename, handle) to send.
C9_Expected(c) ==
    [container |-> container_name,
     name |-> get_cache_key(c.filename),
     contents |-> c.handle,
     content_type |-> "application/binary"]

\* C9, as stated: every put makes exactly one put_object call, to the
\* configured container, under get_cache_key(f), with the bytes of the handle
\* and the content type application/binary.
C9_EveryPutStoresOnce ==
    \A p \in Procs :
        (Done(p) /\ call[p].op = "put") =>
            /\ Cardinality(Calls(p, "put_object")) = 1
            /\ \A i \in Calls(p, "put_object") : log[p][i].args = C9_Expected(call[p])

\* C9, amended: every put that gets a connection makes exactly one put_object
\* call, to the configured container, under get_cache_key(f), with the bytes
\* of the handle and the content type application/binary; a put whose
\* construction of the connection fails makes none.  A get(f) fetches from
\* the same container under the same key.
C9_PutStoresOnceUnderCacheKey ==
    \A p \in Procs :
        /\ (Done(p) /\ call[p].op = "put") =>
              /\ Cardinality(Calls(p, "put_object")) =
                    (IF Failed(p, "Connection") = {} THEN 1 ELSE 0)
              /\ \A i \in Calls(p, "put_object") :
                    log[p][i].args = C9_Expected(call[p])
        /\ call[p].op = "get" =>
              \A i \in Calls(p, "get_object") :
                  /\ log[p][i].args.container = container_name
                  /\ log[p][i].args.name = get_cache_key(call[p].filename)

\* A put under a prefix that stored its body, and a get of the same file by
\* another process that fetched under the key of the put.
C9_Witness ==
    \E p, q \in Procs :
        /\ swift_cache_prefix # ""
        /\ Done(p) /\ call[p].op = "put"
        /\ Calls(p, "put_object") # {} /\ ~ClientError(p)
        /\ call[q].op = "get" /\ call[q].filename = call[p].filename
        /\ \E i \in Calls(q, "get_object") :
              log[q][i].args.name = log[p][Len(log[p])].args.name

(***************************************************************************)
(* C10.                                                                    *)
(***************************************************************************)
\* C10, as stated: once a complete file is at the target path, no step
\* changes its content, replaces it or deletes it.
C10_LocalFileNeverChanges ==
    [][\A f \in Files :
          Pathname(f) \in DOMAIN files =>
              /\ Pathname(f) \in DOMAIN files'
              /\ files'[Pathname(f)] = files[Pathname(f)]]_vars

\* C10, amended: once a complete file is at the target path, no step deletes
\* it or leaves less than a complete body there, no put changes it, and no
\* get that begins afterwards changes it; only a get(f) that looked for the
\* file before it was there, and downloaded meanwhile, replaces it, by the
\* complete body it downloaded.
C10_OnlyRacingGetReplaces ==
    [][\A f \in Files :
          Pathname(f) \in DOMAIN files =>
              /\ Pathname(f) \in DOMAIN files'
              /\ \/ files'[Pathname(f)] = files[Pathname(f)]
                 \/ \E p \in Procs :
                       /\ pc[p] = "replace" /\ pc'[p] = "idle"
                       /\ call[p].op = "get" /\ call[p].filename = f
                       /\ ~call[p].existed
                       /\ content[p] \in Bodies
                       /\ files'[Pathname(f)] = content[p]]_vars

\* The file is in place, and a get that started before it was is about to
\* replace it by another body.
C10_Witness ==
    \E p \in Procs :
        /\ pc[p] = "replace"
        /\ Pathname(call[p].filename) \in DOMAIN files
        /\ files[Pathname(call[p].filename)] # content[p]

(***************************************************************************)
(* C11.                                                                    *)
(***************************************************************************)
\* A step in which process p makes a put call (put is one step).
C11_PutStep(p) ==
    /\ pc[p] = "idle" /\ pc' = pc
    /\ ncalls' = ncalls + 1
    /\ call'[p].op = "put"
    /\ \A q \in Procs \ {p} : call'[q] = call[q]

C12_CacheKeyIsPrefixSlashFilename ==
    \A p \in Procs :
        call[p].op = "get_cache_key" =>
            ret[p] = Return(IF swift_cache_prefix = ""
                            THEN call[p].filename
                            ELSE swift_cache_prefix \o "/" \o call[p].filename)

\* The key of a filename under a prefix, both with a slash of their own.
C12_Witness ==
    \E p \in Procs :
        /\ call[p].op = "get_cache_key"
        /\ call[p].filename = "sub/c.whl"
        /\ ret[p] = Return("a/b/sub/c.whl")

(***************************************************************************)
(* C13.                                                                    *)
(***************************************************************************)
\* The allow-listed options that the configuration resolves to a value.
C13_Resolved == {k \in OsKeySet : settings["os_" \o k] # Unset}

\* C13: os_options is exactly the mapping from the allow-listed names whose
\* resolved value is not absent to that value (the empty string is a value);
\* it has no other key.
C13_OsOptionsIsResolvedAllowList ==
    \A p \in Procs :
        call[p].op = "os_options" =>
            /\ ret[p].kind = "return"
            /\ DOMAIN ret[p].value = C13_Resolved
            /\ \A k \in C13_Resolved : ret[p].value[k] = settings["os_" \o k]

\* Only region_name is set, and os_options is that one entry, although the
\* password and the URL are set too.
C13_Witness ==
    \E p \in Procs :
        /\ call[p].op = "os_options"
        /\ settings["os_password"] # Unset
        /\ C13_Resolved = {"region_name"}
        /\ ret[p] = Return([region_name |-> "RegionOne"])

(***************************************************************************)
(* C14.                                                                    *)
(***************************************************************************)
\* C14, as stated: the os_options given to Connection(...) hold no option
\* whose value is the empty string.
C14_NoEmptyOptionPassed ==
    \A p \in Procs :
        \A i \in Calls(p, "Connection") :
            \A k \in DOMAIN log[p][i].args.os_options :
                log[p][i].args.os_options[k] # ""

\* C14, amended: the os_options given to Connection(...) hold the allow-listed
\* options whose resolved value is not absent, and only those; an option
\* resolved to the empty string is among them, with the empty string.
C14_NonAbsentOptionsPassed ==
    \A p \in Procs :
        \A i \in Calls(p, "Connection") :
            LET passed == log[p][i].args.os_options
            IN  /\ DOMAIN passed =
                      {k \in OsKeySet : settings["os_" \o k] # Unset}
                /\ \A k \in DOMAIN passed : passed[k] = settings["os_" \o k]
                /\ conn[p] # NoConnection => conn[p].os_options = passed

\* A connection was constructed, with the empty region_name among its options.
C14_Witness ==
    \E p \in Procs :
        /\ conn[p] # NoConnection
        /\ \E i \in Calls(p, "Connection") :
              /\ log[p][i].outcome = "ok"
              /\ "region_name" \in DOMAIN log[p][i].args.os_options
              /\ log[p][i].args.os_options["region_name"] = ""

(***************************************************************************)
(* C15.                                                                    *)
(***************************************************************************)
\* The last call of p is a put that stored its body.
C15_HasPut(p) == Done(p) /\ call[p].op = "put" /\ ret[p] = Return(None)

\* C15: the container and the local cache being empty at first, and a
\* put(f, B) having succeeded as the only call so far, a get(f) that comes
\* next and finds no local file does not find the object missing, and, unless
\* the client fails otherwise, fetches B, returns <binary_cache>/f and leaves
\* B in that file.
C15_PutThenGetRoundTrip ==
    /\ [][\A p, q \in Procs :
             (/\ ncalls = 1 /\ C15_HasPut(p)
              /\ ncalls' = 2
              /\ call'[q].op = "get"
              /\ call'[q].filename = call[p].filename)
             => /\ ~call'[q].existed
                /\ \A i \in 1 .. Len(log'[q]) : log'[q][i].outcome # NotFound
                /\ (\A i \in 1 .. Len(log'[q]) : log'[q][i].outcome = "ok")
                      => (pc'[q] = "open" /\ content'[q] = call[p].handle)]_vars
    /\ [](\A p, q \in Procs :
             (/\ ncalls = 2 /\ C15_HasPut(p)
              /\ MissedGet(q) /\ ~ClientError(q)
              /\ call[q].filename = call[p].filename)
             => /\ ret[q] = Return(Pathname(call[q].filename))
                /\ Pathname(call[q].filename) \in DOMAIN files
                /\ files[Pathname(call[q].filename)] = call[p].handle)

\* Under a prefix, one process has put the two-byte body and another has got
\* it into the local cache.
C15_Witness ==
    \E p, q \in Procs :
        /\ swift_cache_prefix # ""
        /\ ncalls = 2 /\ C15_HasPut(p)
        /\ call[p].handle = <<2, 3>>
        /\ MissedGet(q) /\ call[q].filename = call[p].filename
        /\ ret[q] = Return(Pathname(call[q].filename))
        /\ files[Pathname(call[q].filename)] = <<2, 3>>

(***************************************************************************)
(* C16.                                                                    *)
(***************************************************************************)
\* Some get(f) has returned the path, and its caller has made no call since.
C16_Returned(f) ==
    \E p \in Procs :
        /\ Done(p) /\ call[p].op = "get" /\ call[p].filename = f
        /\ ret[p] = Return(Pathname(f))

\* Process q begins a get(f) in this step.
C16_GetBegins(q, f) ==
    /\ pc[q] = "idle"
    /\ call'[q] # call[q]
    /\ call'[q].op = "get" /\ call'[q].filename = f

\* A get(f) that begins in this step returns the path at once, and the
\* client sees no call.
C16_LaterGetHits(f) ==
    \A q \in Procs :
        C16_GetBegins(q, f) =>
            /\ pc'[q] = "idle"
            /\ ret'[q] = Return(Pathname(f))
            /\ log'[q] = <<>>

\* C16, as stated: once a get(f) has returned a path, every later get(f)
\* returns that path without a remote call, and the file keeps the content
\* it had, whatever happens to the stored object.
C16_LocalCopyKeepsItsContent ==
    [][\A f \in Files :
          C16_Returned(f) =>
              /\ C16_LaterGetHits(f)
              /\ Pathname(f) \in DOMAIN files'
              /\ files'[Pathname(f)] = files[Pathname(f)]]_vars

\* C16, amended: once a get(f) has returned a path, every later get(f)
\* returns that path without a remote call; the file is never removed, and
\* no change of the stored object (a put) and no failure of the store changes
\* it.  Its content is the original one unless a get(f) that had looked for
\* the file before it was there, and downloaded meanwhile, replaces it by the
\* complete body it downloaded.
C16_LocalCopyIsNeverRevalidated ==
    [][\A f \in Files :
          C16_Returned(f) =>
              /\ C16_LaterGetHits(f)
              /\ Pathname(f) \in DOMAIN files'
              /\ store' # store => files' = files
              /\ \/ files'[Pathname(f)] = files[Pathname(f)]
                 \/ \E p \in Procs :
                       /\ pc[p] = "replace" /\ pc'[p] = "idle"
                       /\ call[p].filename = f /\ ~call[p].existed
                       /\ files'[Pathname(f)] = content[p]
                       /\ content[p] \in Bodies]_vars

\* A get has found the local file and returned its path, although a put has
\* since stored another body under the key, which the file does not hold.
C16_Witness ==
    \E p, q \in Procs :
        /\ Done(q) /\ call[q].op = "get" /\ call[q].existed
        /\ ret[q] = Return(Pathname(call[q].filename))
        /\ Done(p) /\ call[p].op = "put" /\ ret[p] = Return(None)
        /\ call[p].filename = call[q].filename
        /\ store[ObjectOf(call[q].filename)] = call[p].handle
        /\ files[Pathname(call[q].filename)] # call[p].handle

(***************************************************************************)
(* C17.                                                                    *)
(***************************************************************************)
\* C17: a construction that fails leaves self._connection unset; a backend
\* without a stored connection constructs at every call that needs one, so
\* that no request is made, and no CacheBackendDisabledError is raised,
\* without a construction in that call; and the connection a backend has
\* stored is the one its last construction made.
C17_FailedConstructionStoresNothing ==
    \A p \in Procs :
        /\ Failed(p, "Connection") # {} => conn[p] = NoConnection
        /\ conn[p] # NoConnection => conn[p].id = attempts[p]
        /\ (log[p] # <<>> /\ log[p][1].fn # "Connection") =>
              (conn[p] # NoConnection /\ log[p][1].via = conn[p].id)
        /\ (Done(p) /\ ret[p].value = "CacheBackendDisabledError") =>
              Failed(p, "Connection") # {}

\* The first construction of a backend failed, and its next call constructed
\* again, with success, and went on to its request.
C17_Witness ==
    \E p \in Procs :
        /\ Done(p)
        /\ attempts[p] = 2 /\ conn[p] # NoConnection /\ conn[p].id = 2
        /\ Len(log[p]) = 2
        /\ log[p][1].fn = "Connection" /\ log[p][1].outcome = "ok"
        /\ log[p][2].via = 2 /\ log[p][2].outcome = "ok"

====
